---- MODULE Spec2Model ----
(***************************************************************************)
(* A model of arcode.py (class ArithmeticCode): a 16-bit arithmetic coder  *)
(* with a static (two pass, header) and an adaptive probability model.     *)
(*                                                                         *)
(* One run is: encode_file on a source file, then decode_file of the      *)
(* encoded file by a freshly initialised coder, as EncodeDirTest does.     *)
(* The bit stream (module bitfile) is a sequence of bits, most significant *)
(* bit of every byte first, padded with zero bits to a whole byte on close.*)
(***************************************************************************)
EXTENDS Integers, Sequences, FiniteSets, TLC

\* ---------------------------------------------------------------- constants
EOF_CHAR == 256

PRECISION == 16

MSB_MASK == (2 ^ (PRECISION - 1)) - 1

MAX_PROBABILITY == 2 ^ (PRECISION - 2)

\* ------------------------------------------------------------------- bounds
\* literal source files have at most MaxLen bytes ...
MaxLen == 2

\* ... drawn from the first NumBytes entries of ByteChoice
NumBytes == 3

\* length of the long single-byte file that makes the adaptive model halve its counts
HalvingLen == 16200

\* number of 'A' bytes of the long file that makes the static model rescale its counts
RescaleLen == 16384

\* untrusted encoded files: a header of at most MaxRecords records, then at
\* most MaxPayload bytes
MaxRecords == 2

MaxPayload == 1

\* lookup targets run from TargetMargin below 0 to TargetMargin above the
\* cumulative total
TargetMargin == 3

\* bounds handed to the shift loops: every value of the TopBits top bits,
\* the bits below them filled in one of NumFills ways
TopBits == 4

NumFills == 6

ByteChoice == <<0, 65, 255, 128, 1>>

ByteVals == {ByteChoice[i] : i \in 1..NumBytes}

\* ------------------------------------------------------------- source files
\* A file is a sequence of runs <<byte, count>> (count > 0); its bytes are
\* the runs laid out one after the other.
\* In(value), with value worked out once however often In uses it
Let(value, In(_)) == CHOOSE result \in {In(v) : v \in {value}} : TRUE

RECURSIVE SumOver(_, _, _)
\* f[a] + ... + f[b], by halves
SumOver(f, a, b) ==
    IF a > b THEN 0
    ELSE IF a = b THEN f[a]
    ELSE SumOver(f, a, (a + b) \div 2) + SumOver(f, ((a + b) \div 2) + 1, b)

\* the number of bytes of a file
RunsLen(runs) == SumOver([k \in 1..Len(runs) |-> runs[k][2]], 1, Len(runs))

\* A read position is <<run, offset in the run>>; the start of a file:
StartOfFile == <<1, 0>>

\* read(1) at a position: the byte there, -1 at the end of the file
RunsByte(runs, pos) == IF pos[1] > Len(runs) THEN -1 ELSE runs[pos[1]][1]

\* the position after the byte at pos
RunsNext(runs, pos) ==
    IF pos[2] + 1 < runs[pos[1]][2] THEN <<pos[1], pos[2] + 1>> ELSE <<pos[1] + 1, 0>>

\* file.write(chr(c)): one more byte at the end of the file
RunsAppend(runs, c) ==
    IF runs # <<>> /\ runs[Len(runs)][1] = c
    THEN [runs EXCEPT ![Len(runs)] = <<c, runs[Len(runs)][2] + 1>>]
    ELSE Append(runs, <<c, 1>>)

\* the bytes of d are the first bytes of s (no two neighbouring runs of a
\* file hold the same byte)
IsPrefix(d, s) ==
    IF d = <<>> THEN TRUE
    ELSE /\ Len(d) <= Len(s)
         /\ \A k \in 1..(Len(d) - 1) : d[k] = s[k]
         /\ d[Len(d)][1] = s[Len(d)][1]
         /\ d[Len(d)][2] <= s[Len(d)][2]

RECURSIVE RunsOfSeq(_)
RunsOfSeq(s) ==
    IF s = <<>> THEN <<>> ELSE RunsAppend(RunsOfSeq(SubSeq(s, 1, Len(s) - 1)), s[Len(s)])

RECURSIVE SeqsUpTo(_)
SeqsUpTo(n) ==
    IF n = 0 THEN {<<>>}
    ELSE LET shorter == SeqsUpTo(n - 1)
         IN  shorter \cup {Append(s, b) : s \in {t \in shorter : Len(t) = n - 1}, b \in ByteVals}

LiteralFiles == {RunsOfSeq(s) : s \in SeqsUpTo(MaxLen)}

\* scenario 6 of the boundary cases: long enough for an adaptive halving
HalvingFile == << <<65, HalvingLen>> >>

\* scenario 5: a repeated byte, total count >= MAX_PROBABILITY, then another byte
RescaleFile == << <<65, RescaleLen>>, <<66, 1>> >>

\* A file of 32767 bytes in which 255 byte values occur once and byte 128
\* fills the rest: 46 bytes with two other values among them, then byte 0,
\* then the other values, then the rest of the 128s.
OverflowFile ==
    << <<128, 1>>, <<255, 1>>, <<128, 44>>, <<0, 1>> >>
        \o [k \in 1..127 |-> <<k, 1>>]
        \o [k \in 1..126 |-> <<128 + k, 1>>]
        \o << <<128, 32767 - 255 - 45>> >>

\* The same bytes in another order: the file starts with byte 255, whose
\* range is the last of the byte values.
HighByteFile ==
    << <<255, 1>>, <<128, 32767 - 255>> >>
        \o [k \in 1..128 |-> <<k - 1, 1>>]
        \o [k \in 1..126 |-> <<128 + k, 1>>]

\* ------------------------------------------------------------ bit stream
\* the n low bits of value, most significant first: put_bits_ltom / put_char
RECURSIVE BitsOf(_, _)
BitsOf(value, n) ==
    IF n = 0 THEN <<>> ELSE Append(BitsOf(value \div 2, n - 1), value % 2)

RECURSIVE ValueTo(_, _)
\* the unsigned integer the first n bits of a bit sequence spell
ValueTo(bits, n) ==
    IF n = 0 THEN 0 ELSE 2 * ValueTo(bits, n - 1) + bits[n]

\* the unsigned integer a bit sequence spells: get_bits_ltom / get_char
ValueOf(bits) == ValueTo(bits, Len(bits))

\* close() of a written bit file: the last byte is filled up with zero bits
PadToByte(bits) ==
    bits \o [i \in 1..((8 - (Len(bits) % 8)) % 8) |-> 0]

\* get_bit(): the bit at position pos (from 0), or -1 for EOFError
GetBit(bits, pos) == IF pos < Len(bits) THEN bits[pos + 1] ELSE -1

\* ------------------------------------------------------- ArithmeticCode
mask_bit(x) == 2 ^ (PRECISION - (1 + x))

lower_index(c) == c

upper_index(c) == c + 1

RangeIndex == 0..upper_index(EOF_CHAR)

\* bit number x (0 is the MSB) of a PRECISION sized integer v: (v & mask_bit(x)) != 0
BitSet(v, x) == ((v \div mask_bit(x)) % 2) = 1

ZeroRanges == [i \in RangeIndex |-> 0]

\* the function f, every value of it worked out now
Table(f) == f @@ f

\* the count of every byte value of a file: the read loop of build_probability_range_list
CountArray(runs) ==
    Table([b \in 0..(EOF_CHAR - 1) |->
              SumOver([k \in 1..Len(runs) |-> IF runs[k][1] = b THEN runs[k][2] ELSE 0],
                      1, Len(runs))])

\* f[0] + ... + f[n]
SumTo(f, n) == SumOver(f, 0, n)

\* the cumulative bounds without the count of 1 for EOF_CHAR in the last of
\* them
RangesWithoutEof(counts, cum) ==
    Let([i \in RangeIndex |->
            IF i = 0 \/ i = upper_index(EOF_CHAR) THEN 0 ELSE counts[i]],
        LAMBDA c1 : <<[i \in RangeIndex |-> SumTo(c1, i)], cum + 1>>)

\* symbol_count_to_probability_ranges: counts in the upper slots become
\* cumulative bounds; the result is <<ranges, cumulative_prob>>
symbol_count_to_probability_ranges(counts, cum) ==
    Let([i \in RangeIndex |->
            IF i = 0 THEN 0
            ELSE IF i = upper_index(EOF_CHAR) THEN 1
            ELSE counts[i]],
        LAMBDA c1 : <<[i \in RangeIndex |-> SumTo(c1, i)], cum + 1>>)

\* every count divided by the rescale value
RescaleByFloor(count_array, rescale_value) ==
    [b \in 0..(EOF_CHAR - 1) |-> count_array[b] \div rescale_value]

\* the rescaling of the counts in build_probability_range_list
RescaleBy(count_array, rescale_value) ==
    [b \in 0..(EOF_CHAR - 1) |->
        IF count_array[b] > rescale_value THEN count_array[b] \div rescale_value
        ELSE IF count_array[b] # 0 THEN 1
        ELSE count_array[b]]

RescaleCounts(counted) ==
    Let(counted,
        LAMBDA count_array :
            Let(SumTo(count_array, EOF_CHAR - 1),
                LAMBDA total_count :
                    IF total_count >= MAX_PROBABILITY
                    THEN RescaleBy(count_array, (total_count \div MAX_PROBABILITY) + 1)
                    ELSE count_array))

\* _ranges = [0] + count_array + [1]
CountsToRanges(count_array) ==
    [i \in RangeIndex |->
        IF i = 0 THEN 0
        ELSE IF i = upper_index(EOF_CHAR) THEN 1
        ELSE count_array[i - 1]]

build_probability_range_list(runs) ==
    Let(RescaleCounts(CountArray(runs)),
        LAMBDA scaled :
            Let(CountsToRanges(scaled),
                LAMBDA counts : symbol_count_to_probability_ranges(
                                    counts, SumTo(scaled, EOF_CHAR - 1))))

\* the largest member of a finite non-empty set of integers
MaxOf(S) == CHOOSE m \in S : \A n \in S : n <= m

\* `previous' of write_header when the loop comes to symbol c: it starts at 0
\* and takes every upper bound that is above it
Previous(R, c) == MaxOf({0} \cup {R[upper_index(b)] : b \in 0..(c - 1)})

\* a record with the upper bound of symbol c for its count
HeaderRecordOfBound(R, c) ==
    IF R[upper_index(c)] > Previous(R, c)
    THEN BitsOf(c, 8) \o BitsOf(R[upper_index(c)], PRECISION - 2)
    ELSE <<>>

\* what write_header puts out for symbol c
HeaderRecord(R, c) ==
    IF R[upper_index(c)] > Previous(R, c)
    THEN BitsOf(c, 8) \o BitsOf(R[upper_index(c)] - Previous(R, c), PRECISION - 2)
    ELSE <<>>

RECURSIVE HeaderRecords(_, _, _)
\* the records of the symbols a..b one after the other, by halves
HeaderRecords(R, a, b) ==
    IF a > b THEN <<>>
    ELSE IF a = b THEN HeaderRecord(R, a)
    ELSE HeaderRecords(R, a, (a + b) \div 2) \o HeaderRecords(R, ((a + b) \div 2) + 1, b)

\* write_header: a record for every symbol with a count, then the zero count
write_header(R) ==
    HeaderRecords(R, 0, EOF_CHAR - 1) \o BitsOf(0, 8) \o BitsOf(0, PRECISION - 2)

initialize_adaptive_probability_range_list ==
    <<[i \in RangeIndex |-> i], EOF_CHAR + 1>>

\* every count halved, a count of 1 not kept
HalveRangesFloor(R) ==
    LET delta(i) == IF i = 1 THEN R[1] - 0 ELSE R[i] - R[i - 1]
    IN  Let([i \in RangeIndex |-> IF i = 0 THEN R[0] ELSE delta(i) \div 2],
            LAMBDA halved : [i \in RangeIndex |-> SumTo(halved, i)])

\* the halving of the counts in apply_symbol_range
HalveRanges(R) ==
    LET delta(i) == IF i = 1 THEN R[1] - 0 ELSE R[i] - R[i - 1]
    IN  Let([i \in RangeIndex |->
                IF i = 0 THEN R[0]
                ELSE IF delta(i) <= 2 THEN 1
                ELSE delta(i) \div 2],
            LAMBDA halved : [i \in RangeIndex |-> SumTo(halved, i)])

\* the adaptive model update of apply_symbol_range: <<ranges, cumulative_prob>>
UpdateModel(R, cum, symbol) ==
    Let(Table([i \in RangeIndex |-> IF i >= upper_index(symbol) THEN R[i] + 1 ELSE R[i]]),
        LAMBDA added :
            IF cum + 1 >= MAX_PROBABILITY
            THEN Let(Table(HalveRanges(added)),
                     LAMBDA halved : <<halved, halved[upper_index(EOF_CHAR)]>>)
            ELSE <<added, cum + 1>>)

\* the new bounds of apply_symbol_range: <<lower, upper>>
NarrowRange(lo, up, R, cum, symbol) ==
    LET range == up - lo + 1
    IN  <<lo + ((R[lower_index(symbol)] * range) \div cum),
          lo + ((R[upper_index(symbol)] * range) \div cum) - 1>>

\* the branches without the underflow branch
ShiftKindMsbOnly(lo, up) ==
    IF BitSet(up, 0) = BitSet(lo, 0) THEN "msb" ELSE "return"

\* which branch an iteration of write_encoded_bits / read_encoded_bits takes
ShiftKind(lo, up) ==
    IF BitSet(up, 0) = BitSet(lo, 0) THEN "msb"
    ELSE IF (~BitSet(up, 1)) /\ BitSet(lo, 1) THEN "underflow"
    ELSE "return"

\* x & ~(mask_bit_zero | mask_bit_one)
ClearTopTwo(x) ==
    x - (IF BitSet(x, 0) THEN mask_bit(0) ELSE 0) - (IF BitSet(x, 1) THEN mask_bit(1) ELSE 0)

\* x | mask_bit_one
SetSecond(x) == IF BitSet(x, 1) THEN x ELSE x + mask_bit(1)

\* x ^ mask_bit_one
FlipSecond(x) == IF BitSet(x, 1) THEN x - mask_bit(1) ELSE x + mask_bit(1)

\* (x & MSB_MASK) << 1
ShiftOut(x) == (x % (MSB_MASK + 1)) * 2

\* the bounds after one iteration that does not return: <<lower, upper>>
ShiftBounds(lo, up) ==
    IF ShiftKind(lo, up) = "underflow"
    THEN <<ShiftOut(ClearTopTwo(lo)), ShiftOut(SetSecond(up)) + 1>>
    ELSE <<ShiftOut(lo), ShiftOut(up) + 1>>

\* the matching MSB alone, the underflow bits not written
ShiftedMsbOnly(lo, up, underflow) ==
    IF ShiftKind(lo, up) = "msb" THEN <<IF BitSet(up, 0) THEN 1 ELSE 0>> ELSE <<>>

\* the bits one iteration of write_encoded_bits puts out
ShiftedBits(lo, up, underflow) ==
    IF ShiftKind(lo, up) = "msb"
    THEN LET b == IF BitSet(up, 0) THEN 1 ELSE 0
         IN  <<b>> \o [i \in 1..underflow |-> 1 - b]
    ELSE <<>>

\* the second MSB of lower, then the underflow bits pending and no more
WriteRemainingPending(lo, underflow) ==
    LET b == IF BitSet(lo, 1) THEN 1 ELSE 0
    IN  <<b>> \o [i \in 1..underflow |-> 1 - b]

\* write_remaining: the second MSB of lower, then underflow + 1 complements
write_remaining(lo, underflow) ==
    LET b == IF BitSet(lo, 1) THEN 1 ELSE 0
    IN  <<b>> \o [i \in 1..(underflow + 1) |-> 1 - b]

\* Python 2 integer division: the floor of a / b (b # 0)
PyDiv(a, b) == IF b > 0 THEN a \div b ELSE (0 - a) \div (0 - b)

\* a record with a count of PRECISION bits
RecordBytes == 8 + PRECISION

\* a header record: get_char, then get_bits_ltom(PRECISION - 2)
RecordBits == 8 + (PRECISION - 2)

\* the symbol and the count of the record that starts at bit position pos
RecordSymbol(bits, pos) == ValueOf(SubSeq(bits, pos + 1, pos + 8))

RecordCount(bits, pos) == ValueOf(SubSeq(bits, pos + 9, pos + RecordBits))

\* the duplicate test on the lower index of the symbol
CountedBelow(R, symbol) == R[lower_index(symbol)] # 0

\* the duplicate test of read_header: the symbol has a count already
AlreadyCounted(R, symbol) == R[upper_index(symbol)] # 0

\* one pass of the loop of read_header at bit position pos, the counts read
\* so far in R.  Result: what was raised, whether the loop goes on, and the
\* counts, their sum and the position after the pass.
ReadRecord(bits, pos, R, cum) ==
    IF pos + RecordBits > Len(bits)
    THEN [raised |-> "EOFError", more |-> FALSE, ranges |-> R, cum |-> cum,
          pos |-> Len(bits)]
    ELSE LET symbol == RecordSymbol(bits, pos)
             count == RecordCount(bits, pos)
             next == pos + RecordBits
         IN  IF count = 0
             THEN [raised |-> "none", more |-> FALSE,
                   ranges |-> symbol_count_to_probability_ranges(R, cum)[1],
                   cum |-> symbol_count_to_probability_ranges(R, cum)[2], pos |-> next]
             ELSE IF AlreadyCounted(R, symbol)
             THEN [raised |-> "ArithmeticCodeError", more |-> FALSE, ranges |-> R,
                   cum |-> cum, pos |-> next]
             ELSE [raised |-> "none", more |-> TRUE,
                   ranges |-> [R EXCEPT ![upper_index(symbol)] = count],
                   cum |-> cum + count, pos |-> next]

\* the first PRECISION - 1 bits of the stream for the code
InitializeDecoderShort(bits, pos) ==
    ValueOf([i \in 1..(PRECISION - 1) |-> IF GetBit(bits, pos + i - 1) = -1 THEN 0
                                          ELSE GetBit(bits, pos + i - 1)])

\* initialize_decoder: the first PRECISION bits of the stream, zeros past its end
initialize_decoder(bits, pos) ==
    ValueOf([i \in 1..PRECISION |-> IF GetBit(bits, pos + i - 1) = -1 THEN 0
                                    ELSE GetBit(bits, pos + i - 1)])

\* get_unscaled_code, for a range that is not zero
get_unscaled_code(lo, up, cd, cum) ==
    PyDiv(((cd - lo + 1) * cum) - 1, up - lo + 1)

ValueError == 0 - 1

IndexError == 0 - 2

RECURSIVE BinarySearch(_, _, _, _, _)
\* the loop of get_symbol_from_probability; _ranges has the indices 0..257,
\* so reading _ranges[258] raises IndexError
BinarySearch(R, probability, first, last, middle) ==
    IF ~(last >= first) THEN ValueError
    ELSE IF probability < R[lower_index(middle)]
         THEN Let(<<first, middle - 1, first + PyDiv((middle - 1) - first, 2)>>,
                  LAMBDA next : BinarySearch(R, probability, next[1], next[2], next[3]))
    ELSE IF upper_index(middle) \notin RangeIndex THEN IndexError
    ELSE IF probability >= R[upper_index(middle)]
         THEN Let(<<middle + 1, last, (middle + 1) + PyDiv(last - (middle + 1), 2)>>,
                  LAMBDA next : BinarySearch(R, probability, next[1], next[2], next[3]))
    ELSE middle

\* the search for the symbol whose range ends at or above the probability
SymbolOfRangeBelow(R, probability) ==
    BinarySearch(R, probability - 1, 0, upper_index(EOF_CHAR),
                 PyDiv(upper_index(EOF_CHAR), 2))

\* the search among the byte values only, EOF_CHAR left out
SymbolOfByte(R, probability) ==
    BinarySearch(R, probability, 0, EOF_CHAR - 1, PyDiv(EOF_CHAR - 1, 2))

get_symbol_from_probability(R, probability) ==
    BinarySearch(R, probability, 0, upper_index(EOF_CHAR), PyDiv(upper_index(EOF_CHAR), 2))

RECURSIVE ShiftAll(_, _)
\* the bounds write_encoded_bits returns with: <<lower, upper>>
ShiftAll(lo, up) ==
    IF ShiftKind(lo, up) = "return" THEN <<lo, up>>
    ELSE Let(ShiftBounds(lo, up), LAMBDA next : ShiftAll(next[1], next[2]))

\* the coder and the bits written when write_encoded_bits returns
RECURSIVE write_encoded_bits(_, _, _, _)
write_encoded_bits(lo, up, underflow, bits) ==
    IF ShiftKind(lo, up) = "return"
    THEN [lower |-> lo, upper |-> up, underflow_bits |-> underflow, bits |-> bits]
    ELSE Let(<<ShiftBounds(lo, up), bits \o ShiftedBits(lo, up, underflow)>>,
             LAMBDA next :
                 write_encoded_bits(next[1][1], next[1][2],
                                    IF ShiftKind(lo, up) = "msb" THEN 0 ELSE underflow + 1,
                                    next[2]))

\* one pass of the read loop of encode_file on the coder st with the bits
\* written so far: apply_symbol_range, then write_encoded_bits
EncodeOne(static, st, symbol) ==
    Let(<<NarrowRange(st.lower, st.upper, st.ranges, st.cum, symbol),
          IF static THEN <<st.ranges, st.cum>> ELSE UpdateModel(st.ranges, st.cum, symbol)>>,
        LAMBDA applied :
            Let(write_encoded_bits(applied[1][1], applied[1][2], st.underflow_bits, st.bits),
                LAMBDA written :
                    [ranges |-> applied[2][1], cum |-> applied[2][2],
                     lower |-> written.lower, upper |-> written.upper,
                     underflow_bits |-> written.underflow_bits, bits |-> written.bits]))

RECURSIVE EncodeRun(_, _, _, _)
\* n passes of the read loop on the same byte, by halves
EncodeRun(static, st, byte, n) ==
    IF n = 0 THEN st
    ELSE IF n = 1 THEN EncodeOne(static, st, byte)
    ELSE Let(EncodeRun(static, st, byte, n \div 2),
             LAMBDA half : EncodeRun(static, half, byte, n - (n \div 2)))

RECURSIVE EncodeRuns(_, _, _, _, _)
\* the read loop on the runs a..b of a file, by halves
EncodeRuns(static, st, runs, a, b) ==
    IF a > b THEN st
    ELSE IF a = b THEN EncodeRun(static, st, runs[a][1], runs[a][2])
    ELSE Let(EncodeRuns(static, st, runs, a, (a + b) \div 2),
             LAMBDA half : EncodeRuns(static, half, runs, ((a + b) \div 2) + 1, b))

\* encode_file of a fresh coder: the coder it leaves and the bits of the
\* encoded file
encode_file(static, runs) ==
    Let(IF static THEN build_probability_range_list(runs)
        ELSE initialize_adaptive_probability_range_list,
        LAMBDA model :
            Let(EncodeRuns(static,
                           [ranges |-> Table(model[1]), cum |-> model[2], lower |-> 0,
                            upper |-> (2 ^ PRECISION) - 1, underflow_bits |-> 0,
                            bits |-> IF static THEN write_header(model[1]) ELSE <<>>],
                           runs, 1, Len(runs)),
                LAMBDA read :
                    Let(EncodeOne(static, read, EOF_CHAR),
                        LAMBDA last :
                            [last EXCEPT
                                !.bits = PadToByte(
                                    last.bits \o write_remaining(last.lower,
                                                                 last.underflow_bits)),
                                !.underflow_bits = last.underflow_bits + 1])))

\* -------------------------------------------------------------------- state
VARIABLES
    static_model,     \* _static_model
    pc,               \* where encode_file / decode_file stands
    lower,            \* _lower
    upper,            \* _upper
    code,             \* _code
    underflow_bits,   \* _underflow_bits
    ranges,           \* _ranges
    cumulative_prob,  \* _cumulative_prob
    infile,           \* _infile: "None", "open" or "closed"
    outfile,          \* _outfile: "None", "open" or "closed"
    source,           \* the bytes of the file to encode, as runs
    source_pos,       \* read position of the encoder in source
    encoded,          \* the bits of the encoded file
    bit_pos,          \* read position of the decoder in encoded
    decoded,          \* the bytes of the decoded file, as runs
    unscaled,         \* the last result of get_unscaled_code
    c,                \* the last symbol read or decoded
    raised,           \* the exception that ended the call, "none" if none
    replay,           \* the encoder run again beside the decoder, symbol by symbol
    encode,           \* sample.py: "None", "True" (-c) or "False" (-d)
    input_file,       \* sample.py: the name given with -i, "" if none
    output_file,      \* sample.py: the name given with -o, "" if none
    exit_status       \* sample.py: "running", or the status the process ended with

coder == <<lower, upper, code, underflow_bits, ranges, cumulative_prob>>

files == <<infile, outfile>>

driver == <<encode, input_file, output_file, exit_status>>

vars == <<static_model, pc, coder, files, source, source_pos, encoded, bit_pos,
          decoded, unscaled, c, raised, replay, driver>>

NoReplay ==
    [lower |-> 0, upper |-> 0, ranges |-> <<>>, cum |-> 0, count |-> 0,
     pos |-> StartOfFile, narrow |-> <<0, 0>>]

\* the coder is used without sample.py, as the tests do
NoDriver ==
    /\ encode = "None"
    /\ input_file = ""
    /\ output_file = ""
    /\ exit_status = "running"

\* ArithmeticCode.__init__
InitCoder ==
    /\ lower = 0
    /\ upper = (2 ^ PRECISION) - 1
    /\ code = 0
    /\ underflow_bits = 0
    /\ ranges = ZeroRanges
    /\ cumulative_prob = 0
    /\ infile = "None"
    /\ outfile = "None"

InitRun ==
    /\ InitCoder
    /\ NoDriver
    /\ pc = "encode_file"
    /\ source_pos = StartOfFile
    /\ encoded = <<>>
    /\ bit_pos = 0
    /\ decoded = <<>>
    /\ unscaled = 0
    /\ c = 0
    /\ raised = "none"
    /\ replay = NoReplay

\* every literal file in both modes, the halving file with the adaptive
\* model, the rescaling file and the two overflow files with the static model
Init ==
    /\ InitRun
    /\ \/ static_model \in BOOLEAN /\ source \in LiteralFiles
       \/ static_model = FALSE /\ source = HalvingFile
       \/ static_model = TRUE /\ source \in {RescaleFile, OverflowFile, HighByteFile}

\* ------------------------------------------------------------- encode_file
\* encode_file up to the model: the static coder opens the input to count it,
\* the adaptive coder starts from the uniform model and opens both files
EncodeOpen ==
    /\ pc = "encode_file"
    /\ infile = "None" /\ outfile = "None"
    /\ IF static_model
       THEN /\ pc' = "build"
            /\ infile' = "open"
            /\ UNCHANGED <<ranges, cumulative_prob, outfile>>
       ELSE /\ pc' = "read"
            /\ ranges' = initialize_adaptive_probability_range_list[1]
            /\ cumulative_prob' = initialize_adaptive_probability_range_list[2]
            /\ infile' = "open"
            /\ outfile' = "open"
    /\ UNCHANGED <<driver, static_model, lower, upper, code, underflow_bits, source, source_pos,
                   encoded, bit_pos, decoded, unscaled, c, raised, replay>>

\* build_probability_range_list, then the seek back to the start
BuildProbabilityRangeList ==
    /\ pc = "build"
    /\ \E model \in {build_probability_range_list(source)} :
           /\ ranges' = model[1]
           /\ cumulative_prob' = model[2]
    /\ source_pos' = StartOfFile
    /\ pc' = "header"
    /\ UNCHANGED <<driver, static_model, lower, upper, code, underflow_bits, files, source,
                   encoded, bit_pos, decoded, unscaled, c, raised, replay>>

\* the output file is opened and write_header writes the model
WriteHeader ==
    /\ pc = "header"
    /\ outfile' = "open"
    /\ encoded' = encoded \o write_header(ranges)
    /\ pc' = "read"
    /\ UNCHANGED <<driver, static_model, coder, infile, source, source_pos, bit_pos, decoded,
                   unscaled, c, raised, replay>>

\* one pass of the read loop of encode_file up to write_encoded_bits: the next
\* byte, or EOF_CHAR at the end of the input, goes through apply_symbol_range
EncodeSymbol ==
    /\ pc = "read"
    /\ LET byte == RunsByte(source, source_pos)
           symbol == IF byte = -1 THEN EOF_CHAR ELSE byte
           bounds == NarrowRange(lower, upper, ranges, cumulative_prob, symbol)
           model == UpdateModel(ranges, cumulative_prob, symbol)
       IN  /\ c' = symbol
           /\ lower' = bounds[1]
           /\ upper' = bounds[2]
           /\ ranges' = IF static_model THEN ranges ELSE model[1]
           /\ cumulative_prob' = IF static_model THEN cumulative_prob ELSE model[2]
           /\ source_pos' = IF byte = -1 THEN source_pos ELSE RunsNext(source, source_pos)
           /\ infile' = IF byte = -1 THEN "closed" ELSE infile
           /\ pc' = IF byte = -1 THEN "write_bits_eof" ELSE "write_bits"
    /\ UNCHANGED <<driver, static_model, code, underflow_bits, outfile, source, encoded, bit_pos,
                   decoded, unscaled, raised, replay>>

\* one iteration of the loop of write_encoded_bits
WriteEncodedBits ==
    /\ pc \in {"write_bits", "write_bits_eof"}
    /\ IF ShiftKind(lower, upper) = "return"
       THEN /\ pc' = IF pc = "write_bits" THEN "read" ELSE "remaining"
            /\ UNCHANGED <<lower, upper, underflow_bits, encoded>>
       ELSE /\ encoded' = encoded \o ShiftedBits(lower, upper, underflow_bits)
            /\ underflow_bits' = IF ShiftKind(lower, upper) = "msb" THEN 0
                                 ELSE underflow_bits + 1
            /\ lower' = ShiftBounds(lower, upper)[1]
            /\ upper' = ShiftBounds(lower, upper)[2]
            /\ pc' = pc
    /\ UNCHANGED <<driver, static_model, code, ranges, cumulative_prob, files, source, source_pos,
                   bit_pos, decoded, unscaled, c, raised, replay>>

\* write_remaining and the close of the output file
WriteRemaining ==
    /\ pc = "remaining"
    /\ encoded' = PadToByte(encoded \o write_remaining(lower, underflow_bits))
    /\ underflow_bits' = underflow_bits + 1
    /\ outfile' = "closed"
    /\ pc' = "encoded"
    /\ UNCHANGED <<driver, static_model, lower, upper, code, ranges, cumulative_prob, infile,
                   source, source_pos, bit_pos, decoded, unscaled, c, raised, replay>>

\* encode_file from the call to the return
EncodeFile ==
    /\ pc = "encode_file"
    /\ infile = "None" /\ outfile = "None"
    /\ \E done \in {encode_file(static_model, source)} :
           /\ ranges' = done.ranges
           /\ cumulative_prob' = done.cum
           /\ lower' = done.lower
           /\ upper' = done.upper
           /\ underflow_bits' = done.underflow_bits
           /\ encoded' = done.bits
    /\ c' = EOF_CHAR
    /\ source_pos' = <<Len(source) + 1, 0>>
    /\ infile' = "closed"
    /\ outfile' = "closed"
    /\ pc' = "encoded"
    /\ UNCHANGED <<driver, static_model, code, source, bit_pos, decoded, unscaled, raised, replay>>

\* ------------------------------------------------------------- decode_file
\* what encode_file does to the bounds for one symbol: apply_symbol_range,
\* then write_encoded_bits to its return
EncodeBounds(lo, up, R, cum, symbol) ==
    ShiftAll(NarrowRange(lo, up, R, cum, symbol)[1], NarrowRange(lo, up, R, cum, symbol)[2])

\* the encoder run again on the next byte of the source, its output dropped;
\* narrow is what apply_symbol_range makes of the bounds, lower and upper
\* what write_encoded_bits then leaves
ReplaySymbol(r) ==
    LET byte == RunsByte(source, r.pos)
        bounds == EncodeBounds(r.lower, r.upper, r.ranges, r.cum, byte)
        model == UpdateModel(r.ranges, r.cum, byte)
    IN  IF byte = -1 THEN r
        ELSE [lower |-> bounds[1], upper |-> bounds[2],
              ranges |-> IF static_model THEN r.ranges ELSE model[1],
              cum |-> IF static_model THEN r.cum ELSE model[2],
              count |-> r.count + 1, pos |-> RunsNext(source, r.pos),
              narrow |-> NarrowRange(r.lower, r.upper, r.ranges, r.cum, byte)]

\* a fresh coder (__init__) starts decode_file: the encoded file is opened and
\* the adaptive coder starts from the uniform model
DecodeOpen ==
    /\ pc = "encoded"
    /\ lower' = 0
    /\ upper' = (2 ^ PRECISION) - 1
    /\ code' = 0
    /\ underflow_bits' = 0
    /\ infile' = "open"
    /\ outfile' = "None"
    /\ bit_pos' = 0
    /\ IF static_model
       THEN /\ ranges' = ZeroRanges
            /\ cumulative_prob' = 0
            /\ pc' = "read_header"
       ELSE /\ ranges' = initialize_adaptive_probability_range_list[1]
            /\ cumulative_prob' = initialize_adaptive_probability_range_list[2]
            /\ pc' = "init_decoder"
    /\ replay' = [lower |-> 0, upper |-> (2 ^ PRECISION) - 1,
                  ranges |-> IF static_model THEN ranges
                             ELSE initialize_adaptive_probability_range_list[1],
                  cum |-> IF static_model THEN cumulative_prob
                          ELSE initialize_adaptive_probability_range_list[2],
                  count |-> 0, pos |-> StartOfFile,
                  narrow |-> <<0, (2 ^ PRECISION) - 1>>]
    /\ UNCHANGED <<driver, static_model, source, source_pos, encoded, decoded, unscaled, c, raised>>

\* one pass of the loop of read_header; the pass that reads the zero count
\* goes on to symbol_count_to_probability_ranges
ReadHeader ==
    /\ pc = "read_header"
    /\ LET record == ReadRecord(encoded, bit_pos, ranges, cumulative_prob)
       IN  /\ ranges' = record.ranges
           /\ cumulative_prob' = record.cum
           /\ bit_pos' = record.pos
           /\ raised' = record.raised
           /\ pc' = IF record.raised # "none" THEN "raised"
                    ELSE IF record.more THEN "read_header"
                    ELSE "init_decoder"
    /\ UNCHANGED <<driver, static_model, lower, upper, code, underflow_bits, files, source,
                   source_pos, encoded, decoded, unscaled, c, replay>>

\* initialize_decoder, then the output file is opened
InitializeDecoder ==
    /\ pc = "init_decoder"
    /\ code' = initialize_decoder(encoded, bit_pos)
    /\ bit_pos' = IF bit_pos + PRECISION <= Len(encoded) THEN bit_pos + PRECISION
                  ELSE Len(encoded)
    /\ lower' = 0
    /\ upper' = (2 ^ PRECISION) - 1
    /\ outfile' = "open"
    /\ pc' = "decode_symbol"
    /\ UNCHANGED <<driver, static_model, underflow_bits, ranges, cumulative_prob, infile, source,
                   source_pos, encoded, decoded, unscaled, c, raised, replay>>

\* _outfile.write(chr(c)).  The output is kept as long as it is the start of
\* the source, and one byte more; the coder never reads it.
Written(file, symbol) ==
    IF IsPrefix(file, source) THEN RunsAppend(file, symbol) ELSE file

\* one pass of the loop of decode_file up to read_encoded_bits
DecodePass ==
    /\ pc = "decode_symbol"
    /\ IF upper - lower + 1 = 0
       THEN /\ raised' = "ZeroDivisionError"
            /\ pc' = "raised"
            /\ UNCHANGED <<coder, files, decoded, unscaled, c, replay>>
       ELSE LET probability == get_unscaled_code(lower, upper, code, cumulative_prob)
                symbol == get_symbol_from_probability(ranges, probability)
                bounds == NarrowRange(lower, upper, ranges, cumulative_prob, symbol)
                model == UpdateModel(ranges, cumulative_prob, symbol)
            IN  /\ unscaled' = probability
                /\ c' = symbol
                /\ IF symbol \in {ValueError, IndexError}
                   THEN /\ raised' = IF symbol = ValueError THEN "ValueError"
                                     ELSE "IndexError"
                        /\ pc' = "raised"
                        /\ UNCHANGED <<coder, files, decoded, replay>>
                   ELSE IF symbol = EOF_CHAR
                   THEN /\ outfile' = "closed"
                        /\ infile' = "closed"
                        /\ pc' = "decoded"
                        /\ UNCHANGED <<coder, decoded, raised, replay>>
                   ELSE /\ decoded' = Written(decoded, symbol)
                        /\ lower' = bounds[1]
                        /\ upper' = bounds[2]
                        /\ ranges' = IF static_model THEN ranges ELSE model[1]
                        /\ cumulative_prob' = IF static_model THEN cumulative_prob
                                              ELSE model[2]
                        /\ replay' = ReplaySymbol(replay)
                        /\ pc' = "read_bits"
                        /\ UNCHANGED <<code, underflow_bits, files, raised>>
    /\ UNCHANGED <<driver, static_model, source, source_pos, encoded, bit_pos>>

\* The run of an encoded source follows the decoder as long as its output is
\* the start of the source.
DecodeSymbol == IsPrefix(decoded, source) /\ DecodePass

\* one iteration of the loop of read_encoded_bits
ReadEncodedBits ==
    /\ pc = "read_bits"
    /\ IF ShiftKind(lower, upper) = "return"
       THEN /\ pc' = "decode_symbol"
            /\ UNCHANGED <<lower, upper, code, bit_pos>>
       ELSE LET next_bit == GetBit(encoded, bit_pos)
                flipped == IF ShiftKind(lower, upper) = "underflow"
                           THEN FlipSecond(code) ELSE code
            IN  /\ lower' = ShiftBounds(lower, upper)[1]
                /\ upper' = ShiftBounds(lower, upper)[2]
                /\ code' = ShiftOut(flipped) + (IF next_bit = -1 THEN 0 ELSE next_bit)
                /\ bit_pos' = IF next_bit = -1 THEN bit_pos ELSE bit_pos + 1
                /\ pc' = pc
    /\ UNCHANGED <<driver, static_model, underflow_bits, ranges, cumulative_prob, files, source,
                   source_pos, encoded, decoded, unscaled, c, raised, replay>>

Next ==
    \/ EncodeOpen
    \/ BuildProbabilityRangeList
    \/ WriteHeader
    \/ EncodeSymbol
    \/ WriteEncodedBits
    \/ WriteRemaining
    \/ DecodeOpen
    \/ ReadHeader
    \/ InitializeDecoder
    \/ DecodeSymbol
    \/ ReadEncodedBits

Spec == Init /\ [][Next]_vars

\* encode_file in one step, decode_file step by step
NextFile ==
    \/ EncodeFile
    \/ DecodeOpen
    \/ ReadHeader
    \/ InitializeDecoder
    \/ DecodeSymbol
    \/ ReadEncodedBits

SpecFile == Init /\ [][NextFile]_vars

\* ------------------------------------------- decode_file of any file
RECURSIVE FilesOf(_, _)
\* the bit sequences made of at most n of the given pieces
FilesOf(pieces, n) ==
    IF n = 0 THEN {<<>>}
    ELSE LET shorter == FilesOf(pieces, n - 1)
         IN  {<<>>} \cup {piece \o rest : piece \in pieces, rest \in shorter}

\* header records of the symbols 0x00 and 'A' with the counts 1 and 2
UntrustedRecords ==
    {BitsOf(symbol, 8) \o BitsOf(count, PRECISION - 2) :
        symbol \in {0, 65}, count \in {1, 2}}

\* no terminator record (a truncated header), or one with the symbol byte
\* 0x00 or 0xFF
UntrustedTerminators ==
    {<<>>} \cup {BitsOf(symbol, 8) \o BitsOf(0, PRECISION - 2) : symbol \in {0, 255}}

UntrustedPayloads == FilesOf({BitsOf(0, 8), BitsOf(255, 8)}, MaxPayload)

\* the files decode_file is given: the empty file among them, headers with a
\* symbol twice, headers cut short, payloads no encoder wrote
UntrustedFiles ==
    {PadToByte(header \o terminator \o payload) :
        header \in FilesOf(UntrustedRecords, MaxRecords),
        terminator \in UntrustedTerminators,
        payload \in UntrustedPayloads}

\* a fresh static coder and a file to decode that no encode_file of this run
\* wrote; there is no source to compare the output with
InitUntrusted ==
    /\ InitCoder
    /\ NoDriver
    /\ static_model = TRUE
    /\ pc = "encoded"
    /\ source = <<>>
    /\ source_pos = StartOfFile
    /\ encoded \in UntrustedFiles
    /\ bit_pos = 0
    /\ decoded = <<>>
    /\ unscaled = 0
    /\ c = 0
    /\ raised = "none"
    /\ replay = NoReplay

NextUntrusted ==
    \/ DecodeOpen
    \/ ReadHeader
    \/ InitializeDecoder
    \/ DecodePass
    \/ ReadEncodedBits

\* decode_file is sequential code: it always takes its next step
SpecUntrusted == InitUntrusted /\ [][NextUntrusted]_vars /\ WF_vars(NextUntrusted)

\* ------------------------------------------- get_symbol_from_probability
\* well-formed tables, each as <<ranges, cumulative_prob>>: the static model
\* of every literal file and of the rescaled file, or the adaptive model at
\* the start and after the file that halves it
LookupTables(static) ==
    IF static
    THEN {build_probability_range_list(runs) : runs \in LiteralFiles \cup {RescaleFile}}
    ELSE {initialize_adaptive_probability_range_list}
             \cup {<<encode_file(FALSE, runs).ranges, encode_file(FALSE, runs).cum>> :
                       runs \in {HalvingFile}}

\* a coder with a model, about to look a target up
InitLookup ==
    /\ static_model \in BOOLEAN
    /\ \E table \in LookupTables(static_model) :
           /\ ranges = table[1]
           /\ cumulative_prob = table[2]
    /\ unscaled \in (0 - TargetMargin)..(cumulative_prob + TargetMargin)
    /\ pc = "lookup"
    /\ NoDriver
    /\ lower = 0
    /\ upper = (2 ^ PRECISION) - 1
    /\ code = 0
    /\ underflow_bits = 0
    /\ infile = "open"
    /\ outfile = "open"
    /\ source = <<>>
    /\ source_pos = StartOfFile
    /\ encoded = <<>>
    /\ bit_pos = 0
    /\ decoded = <<>>
    /\ c = 0
    /\ raised = "none"
    /\ replay = NoReplay

\* get_symbol_from_probability(unscaled): the symbol, or what it raises
Lookup ==
    /\ pc = "lookup"
    /\ \E symbol \in {get_symbol_from_probability(ranges, unscaled)} :
           /\ c' = symbol
           /\ raised' = IF symbol = ValueError THEN "ValueError"
                        ELSE IF symbol = IndexError THEN "IndexError"
                        ELSE "none"
    /\ pc' = "looked_up"
    /\ UNCHANGED <<driver, static_model, coder, files, source, source_pos, encoded, bit_pos,
                   decoded, unscaled, replay>>

NextLookup == Lookup

SpecLookup == InitLookup /\ [][NextLookup]_vars

\* ------------------------------------------------------------------ claims
\* the model is built: build_probability_range_list, the whole of read_header
\* or initialize_adaptive_probability_range_list has returned
ModelBuilt ==
    pc \in {"header", "read", "write_bits", "write_bits_eof", "remaining", "encoded",
            "init_decoder", "decode_symbol", "read_bits", "decoded"}

\* decode_file stands after initialize_decoder
Decoding == pc \in {"decode_symbol", "read_bits", "decoded"}

\* the number of adaptive updates that brings the first halving
FirstHalving == MAX_PROBABILITY - (EOF_CHAR + 1)

\* C1: adaptive round trip.  With the adaptive model, decode_file raises
\* nothing, what it has written is at every point the start of the source,
\* and when it stops at the EOF symbol it has written exactly the source.
AdaptiveRoundTrip ==
    (~static_model) =>
        /\ raised = "none"
        /\ IsPrefix(decoded, source)
        /\ (pc = "decoded" => decoded = source)

\* an adaptive run that has decoded a source with two different bytes
AdaptiveRoundTripWitness ==
    (~static_model) /\ pc = "decoded" /\ Len(decoded) > 1 /\ decoded = source

\* C2: static round trip.  With the static model, decode_file raises nothing,
\* what it has written is at every point the start of the source, and when it
\* stops at the EOF symbol it has written exactly the source.
StaticRoundTrip ==
    static_model =>
        /\ raised = "none"
        /\ IsPrefix(decoded, source)
        /\ (pc = "decoded" => decoded = source)

\* C3: interval validity.  lower <= upper after every apply_symbol_range and
\* every iteration of write_encoded_bits and read_encoded_bits, and
\* lower <= code <= upper in the decoder of an encoded source.
IntervalValid ==
    /\ lower <= upper
    /\ Decoding => (lower <= code /\ code <= upper)

\* C4: cumulative total bound.  Once the model is built and after every
\* apply_symbol_range, 0 < _cumulative_prob <= MAX_PROBABILITY.
CumulativeBound ==
    ModelBuilt => (0 < cumulative_prob /\ cumulative_prob <= MAX_PROBABILITY)

\* C5: table well-formedness.  Once the model is built and after every
\* apply_symbol_range, on both sides, _ranges[0] = 0, _ranges does not
\* decrease, _ranges[257] = _cumulative_prob and the EOF symbol has a range.
TableWellFormed ==
    ModelBuilt =>
        /\ ranges[0] = 0
        /\ \A i \in 0..EOF_CHAR : ranges[i] <= ranges[i + 1]
        /\ ranges[upper_index(EOF_CHAR)] = cumulative_prob
        /\ ranges[upper_index(EOF_CHAR)] - ranges[lower_index(EOF_CHAR)] >= 1

\* an adaptive encoder at the end of a source long enough to halve the model
TableWellFormedWitness ==
    (~static_model) /\ pc = "encoded" /\ RunsLen(source) > FirstHalving
        /\ cumulative_prob < FirstHalving

\* C6: adaptive sync.  With the adaptive model, after the decoder has decoded
\* k bytes its (_ranges, _cumulative_prob) are those of the encoder after
\* encoding the first k bytes of the source.
AdaptiveSync ==
    ((~static_model) /\ pc \in {"decode_symbol", "read_bits"}) =>
        /\ replay.count = RunsLen(decoded)
        /\ ranges = replay.ranges
        /\ cumulative_prob = replay.cum

\* encoder and decoder agree after two bytes, both models updated twice
AdaptiveSyncWitness ==
    (~static_model) /\ pc = "read_bits" /\ replay.count = MaxLen
        /\ RunsLen(decoded) = MaxLen /\ ranges = replay.ranges
        /\ cumulative_prob = (EOF_CHAR + 1) + MaxLen

\* C7: header round trip.  read_header on the bits of write_header stops
\* right after the terminator record and leaves the _ranges and the
\* _cumulative_prob the encoder had.
HeaderRoundTrip ==
    (static_model /\ pc = "init_decoder") =>
        /\ ranges = replay.ranges
        /\ cumulative_prob = replay.cum
        /\ bit_pos = Len(write_header(replay.ranges))

\* a header read back in which byte 0x00 and another byte have counts
HeaderRoundTripWitness ==
    /\ static_model /\ pc = "init_decoder"
    /\ ranges[upper_index(0)] > 0
    /\ cumulative_prob > ranges[upper_index(0)] + 1
    /\ ranges = replay.ranges

\* C8: decoder termination.  Whatever file decode_file is given, it comes to
\* an end: it decodes the EOF symbol and returns, or it raises.
DecoderTerminates == <>(pc \in {"decoded", "raised"})

\* C9: range-lookup failure.  For a target below 0 or not below
\* _cumulative_prob, get_symbol_from_probability raises ValueError.
RangeLookupFailure ==
    (pc = "looked_up" /\ (unscaled < 0 \/ unscaled >= cumulative_prob)) =>
        raised = "ValueError"

\* the record read_header is about to read has a count and its symbol is the
\* symbol of an earlier record
DuplicateRecord ==
    /\ RecordCount(encoded, bit_pos) # 0
    /\ \E k \in 0..((bit_pos \div RecordBits) - 1) :
           RecordSymbol(encoded, k * RecordBits) = RecordSymbol(encoded, bit_pos)

\* C10: malformed header.  A record that gives a symbol a second count makes
\* read_header raise ArithmeticCodeError with _ranges and _cumulative_prob as
\* they were; no other record makes it raise this error.
MalformedHeader ==
    [][(pc = "read_header" /\ bit_pos + RecordBits <= Len(encoded)) =>
           IF DuplicateRecord
           THEN /\ raised' = "ArithmeticCodeError"
                /\ pc' = "raised"
                /\ ranges' = ranges
                /\ cumulative_prob' = cumulative_prob
           ELSE raised' # "ArithmeticCodeError"]_vars

\* read_header has raised at the second record of a header, which gives the
\* symbol of the first record another count
MalformedHeaderWitness ==
    /\ raised = "ArithmeticCodeError"
    /\ bit_pos = 2 * RecordBits
    /\ RecordCount(encoded, 0) # RecordCount(encoded, RecordBits)
    /\ cumulative_prob = RecordCount(encoded, 0)

\* a call of encode_file or decode_file has ended: it has returned or raised
CallEnded == pc \in {"encoded", "decoded", "raised"}

\* C11: stream release.  Whenever encode_file or decode_file has ended, by
\* return or by raising, no stream the call opened is still open.
StreamsReleased ==
    CallEnded => (infile # "open" /\ outfile # "open")

\* ------------------------------- a second call on the same ArithmeticCode
\* a stream is open
StreamsOpen(in, out) == in = "open" \/ out = "open"

\* the test at the start of encode_file and of decode_file: a stream is bound
StreamsBound(in, out) == in # "None" \/ out # "None"

\* encode_file or decode_file is called on the coder an earlier call has
\* ended on, without __init__ in between: the call raises at its first
\* statement, or it passes the test and goes on
CallAgain ==
    /\ CallEnded \/ pc = "reset"
    /\ \E call \in {"encode_file", "decode_file"} :
           IF StreamsBound(infile, outfile)
           THEN /\ raised' = "ValueError"
                /\ pc' = IF call = "encode_file" THEN "encode_file_raised"
                         ELSE "decode_file_raised"
           ELSE /\ raised' = raised
                /\ pc' = call
    /\ UNCHANGED <<driver, static_model, coder, files, source, source_pos, encoded, bit_pos,
                   decoded, unscaled, c, replay>>

\* __init__ run on the coder a call has returned on: the numbers and both
\* streams are as in a new coder
Reinitialize ==
    /\ pc \in {"encoded", "decoded"}
    /\ lower' = 0
    /\ upper' = (2 ^ PRECISION) - 1
    /\ code' = 0
    /\ underflow_bits' = 0
    /\ ranges' = ZeroRanges
    /\ cumulative_prob' = 0
    /\ infile' = "None"
    /\ outfile' = "None"
    /\ pc' = "reset"
    /\ UNCHANGED <<driver, static_model, source, source_pos, encoded, bit_pos, decoded,
                   unscaled, c, raised, replay>>

\* the caller sets lower, upper, code, underflow, _ranges and
\* _cumulative_prob of the coder a call has returned on to what __init__
\* sets them to, and nothing else
ResetCoder ==
    /\ pc \in {"encoded", "decoded"}
    /\ lower' = 0
    /\ upper' = (2 ^ PRECISION) - 1
    /\ code' = 0
    /\ underflow_bits' = 0
    /\ ranges' = ZeroRanges
    /\ cumulative_prob' = 0
    /\ pc' = "reset"
    /\ UNCHANGED <<driver, static_model, files, source, source_pos, encoded, bit_pos,
                   decoded, unscaled, c, raised, replay>>

\* every literal file in both modes
InitAgain ==
    /\ InitRun
    /\ static_model \in BOOLEAN
    /\ source \in LiteralFiles

NextAgain ==
    \/ EncodeFile
    \/ DecodeOpen
    \/ ReadHeader
    \/ InitializeDecoder
    \/ DecodeSymbol
    \/ ReadEncodedBits
    \/ CallAgain
    \/ ResetCoder

SpecAgain == InitAgain /\ [][NextAgain]_vars

\* C12: already open.  encode_file or decode_file called on a coder whose
\* _infile or _outfile is bound raises ValueError and leaves lower, upper,
\* code, underflow, _ranges, _cumulative_prob and both streams as they were.
AlreadyOpen ==
    [][(/\ CallEnded
        /\ pc' \in {"encode_file", "decode_file", "encode_file_raised",
                    "decode_file_raised"}
        /\ (infile # "None" \/ outfile # "None")) =>
           /\ raised' = "ValueError"
           /\ pc' \in {"encode_file_raised", "decode_file_raised"}
           /\ UNCHANGED <<coder, files>>]_vars

\* decode_file has raised on the coder that has decoded a file and closed its
\* streams
AlreadyOpenWitness ==
    /\ pc = "decode_file_raised" /\ raised = "ValueError"
    /\ infile = "closed" /\ outfile = "closed"
    /\ decoded = source /\ decoded # <<>>

\* ----------------------------------------------------------- sample.py
\* the encoded files sample.py -d is given: with the static model headers of
\* all kinds without a payload, with the adaptive model what encode_file
\* writes
DriverFiles(static) ==
    IF static
    THEN {PadToByte(header \o terminator) :
             header \in FilesOf(UntrustedRecords, MaxRecords),
             terminator \in UntrustedTerminators}
    ELSE {encode_file(FALSE, runs).bits : runs \in LiteralFiles}

\* sample.py after its option loop: any of -c / -d / neither, -a or not, -i
\* and -o given or not; the input file holds a source to encode or a file
\* to decode
InitDriver ==
    /\ InitCoder
    /\ static_model \in BOOLEAN
    /\ encode \in {"None", "True", "False"}
    /\ input_file \in {"", "in"}
    /\ output_file \in {"", "out"}
    /\ exit_status = "running"
    /\ pc = "main"
    /\ IF encode = "True" THEN source \in LiteralFiles ELSE source = <<>>
    /\ IF encode = "False" THEN encoded \in DriverFiles(static_model) ELSE encoded = <<>>
    /\ source_pos = StartOfFile
    /\ bit_pos = 0
    /\ decoded = <<>>
    /\ unscaled = 0
    /\ c = 0
    /\ raised = "none"
    /\ replay = NoReplay

\* the validation of the options: a missing option ends the process with
\* exit(), which is exit status 0; else the coder is made and encode_file or
\* decode_file is called
ValidateOptions ==
    /\ pc = "main"
    /\ IF input_file = "" \/ output_file = "" \/ encode = "None"
       THEN /\ exit_status' = 0
            /\ pc' = "exit"
       ELSE /\ exit_status' = exit_status
            /\ pc' = IF encode = "True" THEN "encode_file" ELSE "encoded"
    /\ UNCHANGED <<static_model, coder, files, source, source_pos, encoded, bit_pos,
                   decoded, unscaled, c, raised, replay, encode, input_file,
                   output_file>>

\* decode_file is what sample.py -d calls
DriverDecodeOpen == encode = "False" /\ DecodeOpen

\* the end of the process: status 0 after the return of encode_file or
\* decode_file, status 1 when the exception of the coder reaches the top
DriverExit ==
    /\ \/ pc = "encoded" /\ encode = "True"
       \/ pc = "decoded"
       \/ pc = "raised"
    /\ exit_status' = IF pc = "raised" THEN 1 ELSE 0
    /\ pc' = "exit"
    /\ UNCHANGED <<static_model, coder, files, source, source_pos, encoded, bit_pos,
                   decoded, unscaled, c, raised, replay, encode, input_file,
                   output_file>>

NextDriver ==
    \/ ValidateOptions
    \/ EncodeFile
    \/ DriverDecodeOpen
    \/ ReadHeader
    \/ InitializeDecoder
    \/ DecodePass
    \/ ReadEncodedBits
    \/ DriverExit

SpecDriver == InitDriver /\ [][NextDriver]_vars

\* C13: exit status.  sample.py ends with status 0 only when no required
\* option is missing and the encode or decode has come to its end without
\* an error; with an option missing or an error of the coder the status is
\* not 0.
ExitStatus ==
    (pc = "exit") =>
        (exit_status = 0 <=>
            (input_file # "" /\ output_file # "" /\ encode # "None" /\ raised = "none"))

\* C14: symbol lookup.  For a target from 0 to below _cumulative_prob,
\* get_symbol_from_probability raises nothing (it reads no _ranges entry
\* past index 257) and returns the one symbol s of 0..256 with
\* _ranges[s] <= target < _ranges[s + 1].
SymbolOf ==
    (pc = "looked_up" /\ 0 <= unscaled /\ unscaled < cumulative_prob) =>
        /\ raised = "none"
        /\ c \in 0..EOF_CHAR
        /\ \A s \in 0..EOF_CHAR :
               (ranges[lower_index(s)] <= unscaled /\ unscaled < ranges[upper_index(s)])
                   <=> s = c

\* a static table in which the symbol found lies between symbols with empty
\* ranges
SymbolOfWitness ==
    /\ pc = "looked_up" /\ static_model /\ raised = "none"
    /\ c \in 1..(EOF_CHAR - 1)
    /\ ranges[lower_index(c - 1)] = ranges[upper_index(c - 1)]
    /\ ranges[lower_index(c + 1)] = ranges[upper_index(c + 1)]
    /\ ranges[lower_index(c)] <= unscaled /\ unscaled < ranges[upper_index(c)]

RECURSIVE OnShiftPath(_, _)
\* the bounds at are among the bounds the shift loop goes through from the
\* bounds from on
OnShiftPath(from, at) ==
    IF from = at THEN TRUE
    ELSE IF ShiftKind(from[1], from[2]) = "return" THEN FALSE
    ELSE Let(ShiftBounds(from[1], from[2]), LAMBDA next : OnShiftPath(next, at))

\* C15: interval lockstep.  Decoding the k-th byte, apply_symbol_range gives
\* the decoder the bounds it gave the encoder for the k-th byte of the
\* source, every iteration of read_encoded_bits leaves bounds that
\* write_encoded_bits went through, and read_encoded_bits returns with the
\* bounds write_encoded_bits returned with.
IntervalLockstep ==
    [][/\ (pc = "decode_symbol" /\ pc' = "read_bits") =>
              <<lower', upper'>> = replay'.narrow
       /\ (pc = "read_bits" /\ pc' = "read_bits") =>
              OnShiftPath(replay.narrow, <<lower', upper'>>)
       /\ (pc = "read_bits" /\ pc' = "decode_symbol") =>
              <<lower', upper'>> = <<replay.lower, replay.upper>>]_vars

\* the byte occurs in the file
Occurs(runs, byte) == \E k \in 1..Len(runs) : runs[k][1] = byte

\* C16: static rescale.  After build_probability_range_list every byte
\* value of the source has a count of at least 1 and every other byte value
\* the count 0, rescaled or not.
RescaleKeepsSymbols ==
    (static_model /\ pc = "header") =>
        \A byte \in 0..(EOF_CHAR - 1) :
            IF Occurs(source, byte)
            THEN ranges[upper_index(byte)] - ranges[lower_index(byte)] >= 1
            ELSE ranges[upper_index(byte)] - ranges[lower_index(byte)] = 0

\* a model that was rescaled: a byte with a count above 1 and a byte with
\* the count 1 in a source of MAX_PROBABILITY bytes or more
RescaleKeepsSymbolsWitness ==
    /\ static_model /\ pc = "header"
    /\ RunsLen(source) >= MAX_PROBABILITY
    /\ \E byte \in 0..(EOF_CHAR - 1) :
           /\ Occurs(source, byte)
           /\ ranges[upper_index(byte)] - ranges[lower_index(byte)] = 1
    /\ \E byte \in 0..(EOF_CHAR - 1) :
           ranges[upper_index(byte)] - ranges[lower_index(byte)] > 1

\* C17: adaptive halving.  With the adaptive model every one of the 257
\* symbols has a count of at least 1, whatever was encoded or decoded and
\* however often the counts were halved.
NoSymbolErased ==
    ((~static_model) /\ ModelBuilt) =>
        \A s \in 0..EOF_CHAR : ranges[upper_index(s)] - ranges[lower_index(s)] >= 1

\* an adaptive encoder whose model was halved: bytes never seen still have
\* the count 1
NoSymbolErasedWitness ==
    /\ (~static_model) /\ pc = "encoded"
    /\ RunsLen(source) > FirstHalving
    /\ cumulative_prob < RunsLen(source)
    /\ ranges[upper_index(0)] - ranges[lower_index(0)] = 1
    /\ ranges[upper_index(EOF_CHAR - 1)] - ranges[lower_index(EOF_CHAR - 1)] = 1

\* write_header has just returned: the encoded file holds the header only
HeaderWritten ==
    static_model /\ pc = "read" /\ source_pos = StartOfFile /\ outfile = "open"

\* C18 as stated: byte-aligned header I/O.  Every get_char of read_header
\* and the put_char of the terminator record of write_header happen at a bit
\* position that is a multiple of 8.
HeaderByteAligned ==
    /\ (pc = "read_header") => (bit_pos % 8 = 0)
    /\ HeaderWritten => ((Len(encoded) - (8 + (PRECISION - 2))) % 8 = 0)

\* C18: header I/O positions.  The records of the header are 8 + 14 = 22
\* bits long and follow each other without padding: write_header writes a
\* record for every byte value with a count and the terminator record, and
\* every get_char of read_header happens at a multiple of 22 bits, which is
\* a byte boundary for every fourth record only.
HeaderRecordOffsets ==
    /\ (pc = "read_header") =>
           /\ bit_pos % (8 + (PRECISION - 2)) = 0
           /\ (bit_pos % 8 = 0) <=> ((bit_pos \div (8 + (PRECISION - 2))) % 4 = 0)
    /\ HeaderWritten =>
           Len(encoded) = (8 + (PRECISION - 2))
               * (1 + Cardinality({byte \in 0..(EOF_CHAR - 1) :
                                      ranges[upper_index(byte)] > ranges[lower_index(byte)]}))

\* read_header is about to call get_char for the second record of a header,
\* in the middle of the third byte of the file
HeaderRecordOffsetsWitness ==
    /\ static_model /\ pc = "read_header"
    /\ bit_pos = 8 + (PRECISION - 2)
    /\ bit_pos % 8 # 0
    /\ cumulative_prob > 0

\* the two top bits of a PRECISION-bit value, as a number from 0 to 3
TopTwoBits(x) == x \div (2 ^ (PRECISION - 2))

\* C19: renormalization step rule.  An iteration of write_encoded_bits on
\* bounds with the same MSB writes that MSB and then as many complements of
\* it as there are underflow bits pending, and leaves none pending; an
\* iteration on a lower bound starting 01 and an upper bound starting 10
\* writes nothing and makes one more underflow bit pending; every iteration
\* that shifts adds exactly 1 to bits written plus underflow bits pending.
RenormalizationStep ==
    [][(pc \in {"write_bits", "write_bits_eof"} /\ pc' = pc) =>
           /\ (TopTwoBits(lower) \div 2 = TopTwoBits(upper) \div 2) =>
                  /\ encoded' = encoded \o <<TopTwoBits(upper) \div 2>>
                                    \o [i \in 1..underflow_bits |->
                                            1 - (TopTwoBits(upper) \div 2)]
                  /\ underflow_bits' = 0
           /\ (TopTwoBits(lower) = 1 /\ TopTwoBits(upper) = 2) =>
                  /\ encoded' = encoded
                  /\ underflow_bits' = underflow_bits + 1
           /\ Len(encoded') + underflow_bits' = Len(encoded) + underflow_bits + 1]_vars

\* write_encoded_bits with an underflow bit pending that has put out bits
\* before
RenormalizationStepWitness ==
    /\ pc \in {"write_bits", "write_bits_eof"}
    /\ underflow_bits > 0
    /\ TopTwoBits(lower) \div 2 = TopTwoBits(upper) \div 2

\* C20: flush.  After the EOF symbol is encoded and write_encoded_bits has
\* returned, write_remaining adds the second MSB of lower and then
\* underflow + 1 complements of it (underflow as pending on entry), and the
\* file is closed: nothing follows but the zero bits that fill the last byte.
Flush ==
    [][(pc = "remaining") =>
           LET b == TopTwoBits(lower) % 2
               n == Len(encoded)
               k == underflow_bits
           IN  /\ c = EOF_CHAR
               /\ outfile' = "closed"
               /\ Len(encoded') = 8 * ((n + k + 2 + 7) \div 8)
               /\ SubSeq(encoded', 1, n) = encoded
               /\ encoded'[n + 1] = b
               /\ \A i \in 2..(k + 2) : encoded'[n + i] = 1 - b
               /\ \A i \in (n + k + 3)..Len(encoded') : encoded'[i] = 0]_vars

\* an encoded file whose encoder had an underflow bit pending when it came to
\* write_remaining
FlushWitness ==
    /\ pc = "encoded" /\ outfile = "closed" /\ infile = "closed"
    /\ c = EOF_CHAR
    /\ underflow_bits > 1

\* the two products apply_symbol_range computes for a symbol
NarrowProducts(lo, up, R, symbol) ==
    {R[lower_index(symbol)] * (up - lo + 1), R[upper_index(symbol)] * (up - lo + 1)}

\* the product get_unscaled_code computes
UnscaledProduct(lo, cd, cum) == (cd - lo + 1) * cum

\* the symbol the encoder is about to apply: the next byte of the source, or
\* EOF_CHAR at its end
NextSymbol ==
    IF RunsByte(source, source_pos) = -1 THEN EOF_CHAR ELSE RunsByte(source, source_pos)

\* C21: intermediate products.  The products of apply_symbol_range for the
\* symbol the encoder is about to encode, the product of get_unscaled_code
\* and the products of apply_symbol_range for the symbol the decoder then
\* finds are at most 2^PRECISION * 2^(PRECISION - 2) = 2^30.
ProductBound ==
    /\ (pc = "read") =>
           \A product \in NarrowProducts(lower, upper, ranges, NextSymbol) :
               product <= (2 ^ PRECISION) * MAX_PROBABILITY
    /\ (pc = "decode_symbol" /\ upper - lower + 1 # 0) =>
           /\ UnscaledProduct(lower, code, cumulative_prob)
                  <= (2 ^ PRECISION) * MAX_PROBABILITY
           /\ LET symbol == get_symbol_from_probability(
                                ranges,
                                get_unscaled_code(lower, upper, code, cumulative_prob))
              IN  (symbol \in 0..EOF_CHAR) =>
                      \A product \in NarrowProducts(lower, upper, ranges, symbol) :
                          product <= (2 ^ PRECISION) * MAX_PROBABILITY

\* ------------------------------------------------- the shift loops alone
\* the k-th way to fill the w low bits of a bound: zeros, ones, 0..01,
\* 1..10, 10..0, 01..1, 0101.., 1010..
Fill(k, w) ==
    CASE k = 1 -> 0
      [] k = 2 -> (2 ^ w) - 1
      [] k = 3 -> 1
      [] k = 4 -> (2 ^ w) - 2
      [] k = 5 -> 2 ^ (w - 1)
      [] k = 6 -> (2 ^ (w - 1)) - 1
      [] k = 7 -> ((2 ^ w) - 1) \div 3
      [] OTHER -> (2 * (((2 ^ w) - 1) \div 3)) % (2 ^ w)

\* the values lower and upper are drawn from
BoundValues ==
    {(top * (2 ^ (PRECISION - TopBits))) + Fill(k, PRECISION - TopBits) :
        top \in 0..((2 ^ TopBits) - 1), k \in 1..NumFills}

\* write_encoded_bits or read_encoded_bits is entered with bounds
\* 0 <= lower <= upper <= 0xFFFF; nothing is written yet, and the decoder has
\* bits to read
InitShift ==
    /\ NoDriver
    /\ static_model = FALSE
    /\ pc \in {"write_bits", "read_bits"}
    /\ lower \in BoundValues
    /\ upper \in BoundValues
    /\ lower <= upper
    /\ code = IF pc = "read_bits" THEN lower ELSE 0
    /\ underflow_bits = 0
    /\ ranges = initialize_adaptive_probability_range_list[1]
    /\ cumulative_prob = initialize_adaptive_probability_range_list[2]
    /\ infile = "open"
    /\ outfile = "open"
    /\ source = <<>>
    /\ source_pos = StartOfFile
    /\ encoded = IF pc = "read_bits" THEN BitsOf(0, PRECISION + 8) ELSE <<>>
    /\ bit_pos = 0
    /\ decoded = <<>>
    /\ unscaled = 0
    /\ c = 0
    /\ raised = "none"
    /\ replay = NoReplay

NextShift ==
    \/ WriteEncodedBits
    \/ ReadEncodedBits

SpecShift == InitShift /\ [][NextShift]_vars

\* the iterations that shifted since the loop was entered: the encoder has
\* written a bit or noted an underflow bit for each, the decoder has read a
\* bit for each
Iterations ==
    IF pc \in {"write_bits", "read"} THEN Len(encoded) + underflow_bits ELSE bit_pos

\* C22: renormalization postcondition.  Entered with
\* 0 <= lower <= upper <= 0xFFFF, write_encoded_bits and read_encoded_bits
\* shift at most PRECISION times and return with the MSB of lower 0, the MSB
\* of upper 1, the second MSBs not 1 (lower) and 0 (upper), and so with
\* upper - lower + 1 > MAX_PROBABILITY.
RenormalizationEnd ==
    /\ Iterations <= PRECISION
    /\ (pc \in {"read", "decode_symbol"}) =>
           /\ TopTwoBits(lower) \div 2 = 0
           /\ TopTwoBits(upper) \div 2 = 1
           /\ ~(TopTwoBits(lower) = 1 /\ TopTwoBits(upper) = 2)
           /\ upper - lower + 1 > MAX_PROBABILITY

\* read_encoded_bits has returned after PRECISION iterations
RenormalizationEndWitness ==
    pc = "decode_symbol" /\ bit_pos = PRECISION /\ lower = 0 /\ upper = (2 ^ PRECISION) - 1

\* C23: no reuse without __init__.  When encode_file or decode_file has
\* returned, and when the six numbers of the coder are then reset, _infile
\* and _outfile are bound to closed streams; every encode_file or
\* decode_file on that coder raises ValueError; decode_file after __init__
\* does not.
NoReuse ==
    [][/\ (pc' \in {"encoded", "decoded", "reset"}) =>
              (infile' = "closed" /\ outfile' = "closed")
       /\ (pc \in {"encoded", "decoded", "reset"} /\ pc' \notin {"reset", "read_header",
                                                                "init_decoder"}) =>
              /\ raised' = "ValueError"
              /\ pc' \in {"encode_file_raised", "decode_file_raised"}
       /\ (pc = "encoded" /\ pc' \in {"read_header", "init_decoder"}) =>
              (raised' = "none" /\ infile' = "open")]_vars

\* encode_file has raised on a coder whose six numbers were reset after a
\* decode
NoReuseWitness ==
    /\ pc = "encode_file_raised" /\ raised = "ValueError"
    /\ lower = 0 /\ upper = (2 ^ PRECISION) - 1 /\ cumulative_prob = 0
    /\ ranges = ZeroRanges
    /\ infile = "closed" /\ outfile = "closed"
    /\ decoded = source /\ decoded # <<>>

====
